---- MODULE Spec2Model ----
(***************************************************************************)
(* Model of src/vocab.py: the token enumerators of class Tokens, the       *)
(* bidirectional token <-> index mapping of class Vocab, and the           *)
(* load-or-build constructors of RemiVocab and DescriptionVocab.           *)
(*                                                                         *)
(* Python lists are sequences; a Python index i is position i+1 here.      *)
(* A dict is a function whose DOMAIN is its key set.  A text file is a     *)
(* sequence of chunks, each either the newline "\n" or a newline-free      *)
(* string.                                                                 *)
(***************************************************************************)
EXTENDS Integers, Sequences, FiniteSets, TLC

VARIABLES
  \* ---- one Vocab object and the calls made on it
  pc,              \* "new" before Vocab.__init__, "ready" after it returned
  occ,             \* the token occurrences the counter was counted from
  in_counter,      \* the counter argument of Vocab.__init__
  in_specials,     \* the specials argument
  in_unk_token,    \* the unk_token argument
  obj,             \* the Vocab object: forward_map, backward_map, default_token, specials
  op, arg, result, \* the last method called on the object, its argument, its outcome
  \* ---- calls of the Tokens enumerators
  MAX_BAR_LENGTH,  \* the configured constants.MAX_BAR_LENGTH
  in_key,          \* the key argument
  in_qualities,    \* the qualities argument of get_chord_tokens
  call, ret,       \* the enumerator last called and the list it returned
  \* ---- RemiVocab / DescriptionVocab construction over one token file
  cls,             \* the class being constructed
  file,            \* the token file at token_file_path: exists, content
  fpc,             \* each constructor's position
  path,            \* the branch each constructor took at the os.path.exists test
  self_tokens,     \* each constructor's self.tokens
  vocab            \* each constructor's finished Vocab object

vocabVars == <<pc, occ, in_counter, in_specials, in_unk_token, obj, op, arg, result>>
tokVars   == <<in_key, in_qualities, call, ret>>
fileVars  == <<cls, file, fpc, path, self_tokens, vocab>>
vars      == <<vocabVars, MAX_BAR_LENGTH, tokVars, fileVars>>

-----------------------------------------------------------------------------
(* Bounds of the model *)

\* longest token-occurrence sequence handed to Counter
MaxOcc == 3
\* indices passed to to_s / decode range over -MaxIdx .. MaxIdx
MaxIdx == 9
\* longest sequence passed to encode / decode
MaxSeq == 2
\* largest configured MAX_BAR_LENGTH
MaxBarLen == 2
\* MIDI programs enumerated by get_instrument_tokens (range(128) in the source)
NumPrograms == 2
\* MIDI pitches enumerated by get_midi_tokens (range(128) in the source)
NumPitches == 2
\* lengths of the quantization-bin arrays and the bar / position limits
NumVelocityBins == 1
NumDurationBins == 1
NumTempoBins == 1
NumNoteDensityBins == 1
NumMeanVelocityBins == 1
NumMeanPitchBins == 1
NumMeanDurationBins == 1
NumBars == 1
PosPerQuarter == 1

-----------------------------------------------------------------------------
(* constants.py: the literals the module imports *)

PAD_TOKEN  == "<pad>"
UNK_TOKEN  == "<unk>"
BOS_TOKEN  == "<bos>"
EOS_TOKEN  == "<eos>"
MASK_TOKEN == "<mask>"

TIME_SIGNATURE_KEY == "TimeSig"
BAR_KEY            == "Bar"
POSITION_KEY       == "Position"
INSTRUMENT_KEY     == "Instrument"
PITCH_KEY          == "Pitch"
VELOCITY_KEY       == "Velocity"
DURATION_KEY       == "Duration"
TEMPO_KEY          == "Tempo"
CHORD_KEY          == "Chord"
NOTE_DENSITY_KEY   == "NoteDensity"
MEAN_PITCH_KEY     == "MeanPitch"
MEAN_VELOCITY_KEY  == "MeanVelocity"
MEAN_DURATION_KEY  == "MeanDuration"

MAX_N_BARS                      == NumBars
DEFAULT_POS_PER_QUARTER         == PosPerQuarter
len_DEFAULT_VELOCITY_BINS       == NumVelocityBins
len_DEFAULT_DURATION_BINS       == NumDurationBins
len_DEFAULT_TEMPO_BINS          == NumTempoBins
len_DEFAULT_NOTE_DENSITY_BINS   == NumNoteDensityBins
len_DEFAULT_MEAN_VELOCITY_BINS  == NumMeanVelocityBins
len_DEFAULT_MEAN_PITCH_BINS     == NumMeanPitchBins
len_DEFAULT_MEAN_DURATION_BINS  == NumMeanDurationBins

-----------------------------------------------------------------------------
(* Python built-ins used by the module *)

Digit(d) ==
  CASE d = 0 -> "0" [] d = 1 -> "1" [] d = 2 -> "2" [] d = 3 -> "3" [] d = 4 -> "4"
    [] d = 5 -> "5" [] d = 6 -> "6" [] d = 7 -> "7" [] d = 8 -> "8" [] d = 9 -> "9"

\* f'{n}' for a non-negative int: its decimal digits
RECURSIVE FormatInt(_)
FormatInt(n) == IF n < 10 THEN Digit(n) ELSE FormatInt(n \div 10) \o Digit(n % 10)

\* [f'{k}_{i}' for i in range(n)]
Numbered(k, n) == [j \in 1..n |-> k \o "_" \o FormatInt(j - 1)]

\* a list comprehension with two for clauses: the inner lists, one after another
RECURSIVE Concat(_)
Concat(ss) == IF ss = <<>> THEN <<>> ELSE Head(ss) \o Concat(Tail(ss))

Range(s) == {s[i] : i \in DOMAIN s}

\* Counter(iterable): one entry <<token, count>> per distinct token, in first-seen
\* order (dict insertion order)
CounterAdd(c, t) ==
  IF \E i \in DOMAIN c : c[i][1] = t
  THEN LET i == CHOOSE i \in DOMAIN c : c[i][1] = t
       IN [c EXCEPT ![i] = <<t, c[i][2] + 1>>]
  ELSE Append(c, <<t, 1>>)

\* the elements ts[lo..hi] counted into c, in order: the first half, then the
\* second (the test on the first half's result has it computed before the second)
RECURSIVE CounterFrom(_, _, _, _)
CounterFrom(c, ts, lo, hi) ==
  IF lo > hi THEN c
  ELSE IF lo = hi THEN CounterAdd(c, ts[lo])
  ELSE LET mid == (lo + hi) \div 2
           first == CounterFrom(c, ts, lo, mid)
       IN IF Len(first) >= 0 THEN CounterFrom(first, ts, mid + 1, hi) ELSE first

Counter(ts) == CounterFrom(<<>>, ts, 1, Len(ts))

-----------------------------------------------------------------------------
(* class Tokens *)

\* pretty_midi.program_to_instrument_name(i): one name per program number
program_to_instrument_name(i) == "program" \o FormatInt(i)

get_instrument_tokens(key) ==
  LET tokens == [j \in 1..NumPrograms |-> key \o "_" \o program_to_instrument_name(j - 1)]
  IN Append(tokens, key \o "_drum")

DefaultQualities == <<"maj", "min", "dim", "aug", "dom7", "maj7", "min7", "None">>

get_chord_tokens(key, quals) ==
  LET pitch_classes == <<"C", "C#", "D", "D#", "E", "F", "F#", "G", "G#", "A", "A#", "B">>
      chords == Concat([r \in DOMAIN pitch_classes |->
                          [k \in DOMAIN quals |-> pitch_classes[r] \o ":" \o quals[k]]])
  IN [j \in 1..(Len(chords) + 1) |->
        key \o "_" \o (IF j <= Len(chords) THEN chords[j] ELSE "N:N")]

\* the numerators stopping one short of MAX_BAR_LENGTH*q
get_time_signature_tokens_exclusive(key) ==
  LET denominators == <<2, 4, 8, 16>>
      time_sigs == Concat([d \in DOMAIN denominators |->
                             [p \in 1..(MAX_BAR_LENGTH * denominators[d] - 1) |->
                                FormatInt(p) \o "/" \o FormatInt(denominators[d])]])
  IN [j \in DOMAIN time_sigs |-> key \o "_" \o time_sigs[j]]

get_time_signature_tokens(key) ==
  LET denominators == <<2, 4, 8, 16>>
      time_sigs == Concat([d \in DOMAIN denominators |->
                             [p \in 1..(MAX_BAR_LENGTH * denominators[d]) |->
                                FormatInt(p) \o "/" \o FormatInt(denominators[d])]])
  IN [j \in DOMAIN time_sigs |-> key \o "_" \o time_sigs[j]]

get_midi_tokens(instrument_key, time_signature_key, pitch_key, velocity_key, duration_key, tempo_key, bar_key, position_key) ==
  LET instrument_tokens == get_instrument_tokens(instrument_key)
      pitch_tokens    == Numbered(pitch_key, NumPitches)
                           \o Numbered(pitch_key \o "_drum", NumPitches)
      velocity_tokens == Numbered(velocity_key, len_DEFAULT_VELOCITY_BINS)
      duration_tokens == Numbered(duration_key, len_DEFAULT_DURATION_BINS)
      tempo_tokens    == Numbered(tempo_key, len_DEFAULT_TEMPO_BINS)
      bar_tokens      == Numbered(bar_key, MAX_N_BARS)
      position_tokens == Numbered(position_key,
                                  MAX_BAR_LENGTH * 4 * DEFAULT_POS_PER_QUARTER)
      time_sig_tokens == get_time_signature_tokens(time_signature_key)
  IN time_sig_tokens \o tempo_tokens \o instrument_tokens \o pitch_tokens
       \o velocity_tokens \o duration_tokens \o bar_tokens \o position_tokens

-----------------------------------------------------------------------------
(* class Vocab *)

DefaultSpecials == <<PAD_TOKEN, UNK_TOKEN, BOS_TOKEN, EOS_TOKEN, MASK_TOKEN>>

\* the outcome of a call: a returned value or a raised exception
Return(v) == [kind |-> "return", value |-> v]
Raise(e)  == [kind |-> "raise", value |-> e]

NoVocab == [forward_map |-> [t \in {} |-> 0], backward_map |-> <<>>,
            default_token |-> 0, specials |-> <<>>]

\* the specials numbered from 1 instead of 0
RECURSIVE InsertSpecials_shifted(_, _)
InsertSpecials_shifted(v, n) ==
  IF n = 0 THEN v
  ELSE LET w == InsertSpecials_shifted(v, n - 1)
           token == v.specials[n]
       IN [w EXCEPT !.backward_map = Append(@, token),
                    !.forward_map = (token :> n) @@ @]

\* for i, token in enumerate(self.specials): append, forward_map[token] = i
RECURSIVE InsertSpecials(_, _)
InsertSpecials(v, n) ==
  IF n = 0 THEN v
  ELSE LET w == InsertSpecials(v, n - 1)
           token == v.specials[n]
       IN [w EXCEPT !.backward_map = Append(@, token),
                    !.forward_map = (token :> (n - 1)) @@ @]

\* the loop body with the membership test left out
InsertToken_unchecked(v, token) ==
  [v EXCEPT !.forward_map = (token :> Len(v.backward_map)) @@ @,
            !.backward_map = Append(@, token)]

\* if token not in self.forward_map: map it to the next index and append it
InsertToken(v, token) ==
  IF token \notin DOMAIN v.forward_map
  THEN [v EXCEPT !.forward_map = (token :> Len(v.backward_map)) @@ @,
                 !.backward_map = Append(@, token)]
  ELSE v

\* the entries cnt[lo..hi] taken last to first
RECURSIVE InsertCounter_reversed(_, _, _, _)
InsertCounter_reversed(v, cnt, lo, hi) ==
  IF lo > hi THEN v
  ELSE IF lo = hi THEN InsertToken(v, cnt[lo][1])
  ELSE LET mid == (lo + hi) \div 2
           second == InsertCounter_reversed(v, cnt, mid + 1, hi)
       IN IF Len(second.backward_map) >= 0
          THEN InsertCounter_reversed(second, cnt, lo, mid) ELSE second

\* for token, count in counter.items(): the entries cnt[lo..hi], in order: the
\* first half, then the second
RECURSIVE InsertCounter(_, _, _, _)
InsertCounter(v, cnt, lo, hi) ==
  IF lo > hi THEN v
  ELSE IF lo = hi THEN InsertToken(v, cnt[lo][1])
  ELSE LET mid == (lo + hi) \div 2
           first == InsertCounter(v, cnt, lo, mid)
       IN IF Len(first.backward_map) >= 0
          THEN InsertCounter(first, cnt, mid + 1, hi) ELSE first

\* the constructor returning before the loop over the counter
Vocab__init__specials_only(cnt, specs, unk) ==
  LET v0 == [forward_map |-> [t \in {} |-> 0], backward_map |-> <<>>,
             default_token |-> 0, specials |-> specs]
      v1 == InsertSpecials(v0, Len(specs))
  IN IF unk \in Range(specs)
     THEN [v1 EXCEPT !.default_token = v1.forward_map[unk]]
     ELSE v1

Vocab__init__(cnt, specs, unk) ==
  LET v0 == [forward_map |-> [t \in {} |-> 0], backward_map |-> <<>>,
             default_token |-> 0, specials |-> specs]
      v1 == InsertSpecials(v0, Len(specs))
      v2 == IF unk \in Range(specs)
            THEN [v1 EXCEPT !.default_token = v1.forward_map[unk]]
            ELSE v1
  IN InsertCounter(v2, cnt, 1, Len(cnt))

\* a lookup that falls back to index 0 whatever default_token is
to_i_zero(self, token) ==
  IF token \in DOMAIN self.forward_map THEN self.forward_map[token] ELSE 0

to_i(self, token) ==
  IF token \in DOMAIN self.forward_map THEN self.forward_map[token]
  ELSE self.default_token

\* list[idx]: a negative idx counts from the end, an idx outside -len..len-1 raises
ListGetItem(l, idx) ==
  IF 0 <= idx /\ idx < Len(l) THEN Return(l[idx + 1])
  ELSE IF -Len(l) <= idx /\ idx < 0 THEN Return(l[Len(l) + idx + 1])
  ELSE Raise("IndexError")

to_s(self, idx) ==
  IF idx >= Len(self.backward_map) THEN Return(UNK_TOKEN)
  ELSE ListGetItem(self.backward_map, idx)

len(self) == Len(self.backward_map)

encode(self, seq) == [j \in DOMAIN seq |-> to_i(self, seq[j])]

\* the comprehension raises what its first failing element raises
decode(self, seq) ==
  IF \E j \in DOMAIN seq : to_s(self, seq[j]).kind = "raise"
  THEN to_s(self, seq[CHOOSE j \in DOMAIN seq :
                        /\ to_s(self, seq[j]).kind = "raise"
                        /\ \A k \in 1..(j - 1) : to_s(self, seq[k]).kind = "return"])
  ELSE Return([j \in DOMAIN seq |-> to_s(self, seq[j]).value])

-----------------------------------------------------------------------------
(* Inputs of the Vocab specification *)

\* the tokens the occurrence sequences are made of: two category tokens and a
\* token that is also a special
OccTokens == {"Pitch_60", "Pitch_62", UNK_TOKEN}

\* the tokens looked up: known ones, specials and tokens in no vocabulary
QueryTokens == OccTokens \cup {BOS_TOKEN, "Pitch_61", "NotARealToken_999"}

SeqsUpTo(S, n) == UNION {[1..k -> S] : k \in 0..n}

SpecialsChoices ==
  {DefaultSpecials, <<PAD_TOKEN, BOS_TOKEN>>, <<PAD_TOKEN, BOS_TOKEN, UNK_TOKEN>>}

UnkChoices == {UNK_TOKEN, BOS_TOKEN}

Indices == (-MaxIdx)..MaxIdx

\* the indices and tokens the sequences given to decode and encode are made of
DecodeIndices == {-1, 0, MaxIdx}
EncodeTokens  == {"Pitch_60", "Pitch_61"}

IdleTokVars ==
  /\ MAX_BAR_LENGTH = 0 /\ in_key = "" /\ in_qualities = <<>>
  /\ call = "none" /\ ret = <<>>

Procs == {1, 2}

IdleFileVars ==
  /\ cls = "none"
  /\ file = [exists |-> FALSE, content |-> <<>>]
  /\ fpc = [p \in Procs |-> "idle"]
  /\ path = [p \in Procs |-> "none"]
  /\ self_tokens = [p \in Procs |-> <<>>]
  /\ vocab = [p \in Procs |-> NoVocab]

IdleVocabVars ==
  /\ pc = "idle" /\ occ = <<>> /\ in_counter = <<>> /\ in_specials = <<>>
  /\ in_unk_token = UNK_TOKEN /\ obj = NoVocab
  /\ op = "none" /\ arg = <<>> /\ result = Return(<<>>)

-----------------------------------------------------------------------------
(* Specification Spec: one Vocab is constructed, then its methods are called *)

Init ==
  /\ pc = "new"
  /\ occ \in SeqsUpTo(OccTokens, MaxOcc)
  /\ in_counter = Counter(occ)
  /\ in_specials \in SpecialsChoices
  /\ in_unk_token \in UnkChoices
  /\ obj = NoVocab
  /\ op = "none" /\ arg = <<>> /\ result = Return(<<>>)
  /\ IdleTokVars /\ IdleFileVars

Construct ==
  /\ pc = "new"
  /\ obj' = Vocab__init__(in_counter, in_specials, in_unk_token)
  /\ pc' = "ready"
  /\ UNCHANGED <<occ, in_counter, in_specials, in_unk_token, op, arg, result>>
  /\ UNCHANGED <<MAX_BAR_LENGTH, tokVars, fileVars>>

\* a lookup that also inserts the token it misses
Call_to_i_inserting(token) ==
  /\ pc = "ready"
  /\ op' = "to_i" /\ arg' = token
  /\ result' = Return(to_i(obj, token))
  /\ obj' = IF token \in DOMAIN obj.forward_map THEN obj
            ELSE [obj EXCEPT !.forward_map = (token :> Len(obj.backward_map)) @@ @,
                             !.backward_map = Append(@, token)]
  /\ UNCHANGED <<pc, occ, in_counter, in_specials, in_unk_token>>
  /\ UNCHANGED <<MAX_BAR_LENGTH, tokVars, fileVars>>

Call_to_i(token) ==
  /\ pc = "ready"
  /\ op' = "to_i" /\ arg' = token
  /\ result' = Return(to_i(obj, token))
  /\ UNCHANGED <<pc, occ, in_counter, in_specials, in_unk_token, obj>>
  /\ UNCHANGED <<MAX_BAR_LENGTH, tokVars, fileVars>>

Call_to_s(idx) ==
  /\ pc = "ready"
  /\ op' = "to_s" /\ arg' = idx
  /\ result' = to_s(obj, idx)
  /\ UNCHANGED <<pc, occ, in_counter, in_specials, in_unk_token, obj>>
  /\ UNCHANGED <<MAX_BAR_LENGTH, tokVars, fileVars>>

Call_len ==
  /\ pc = "ready"
  /\ op' = "len" /\ arg' = <<>>
  /\ result' = Return(len(obj))
  /\ UNCHANGED <<pc, occ, in_counter, in_specials, in_unk_token, obj>>
  /\ UNCHANGED <<MAX_BAR_LENGTH, tokVars, fileVars>>

Call_encode(seq) ==
  /\ pc = "ready"
  /\ op' = "encode" /\ arg' = seq
  /\ result' = Return(encode(obj, seq))
  /\ UNCHANGED <<pc, occ, in_counter, in_specials, in_unk_token, obj>>
  /\ UNCHANGED <<MAX_BAR_LENGTH, tokVars, fileVars>>

Call_decode(seq) ==
  /\ pc = "ready"
  /\ op' = "decode" /\ arg' = seq
  /\ result' = decode(obj, seq)
  /\ UNCHANGED <<pc, occ, in_counter, in_specials, in_unk_token, obj>>
  /\ UNCHANGED <<MAX_BAR_LENGTH, tokVars, fileVars>>

Next ==
  \/ Construct
  \/ \E token \in QueryTokens : Call_to_i(token)
  \/ \E idx \in Indices : Call_to_s(idx)
  \/ Call_len
  \/ \E seq \in SeqsUpTo(EncodeTokens, MaxSeq) : Call_encode(seq)
  \/ \E seq \in SeqsUpTo(DecodeIndices, MaxSeq) : Call_decode(seq)

Spec == Init /\ [][Next]_vars

-----------------------------------------------------------------------------
(* Specification TokensSpec: the enumerators of class Tokens are called *)

KeyChoices == {TIME_SIGNATURE_KEY, CHORD_KEY, INSTRUMENT_KEY, "K"}

QualityChoices == {DefaultQualities, <<"maj", "min">>, <<>>}

TokensInit ==
  /\ MAX_BAR_LENGTH \in 0..MaxBarLen
  /\ in_key \in KeyChoices
  /\ in_qualities \in QualityChoices
  /\ call = "none" /\ ret = <<>>
  /\ IdleVocabVars /\ IdleFileVars

Call_get_instrument_tokens ==
  /\ call' = "get_instrument_tokens"
  /\ ret' = get_instrument_tokens(in_key)
  /\ UNCHANGED <<MAX_BAR_LENGTH, in_key, in_qualities, vocabVars, fileVars>>

Call_get_chord_tokens ==
  /\ call' = "get_chord_tokens"
  /\ ret' = get_chord_tokens(in_key, in_qualities)
  /\ UNCHANGED <<MAX_BAR_LENGTH, in_key, in_qualities, vocabVars, fileVars>>

Call_get_time_signature_tokens ==
  /\ call' = "get_time_signature_tokens"
  /\ ret' = get_time_signature_tokens(in_key)
  /\ UNCHANGED <<MAX_BAR_LENGTH, in_key, in_qualities, vocabVars, fileVars>>

Call_get_midi_tokens ==
  /\ call' = "get_midi_tokens"
  /\ ret' = get_midi_tokens(INSTRUMENT_KEY, TIME_SIGNATURE_KEY, PITCH_KEY, VELOCITY_KEY,
                            DURATION_KEY, TEMPO_KEY, BAR_KEY, POSITION_KEY)
  /\ UNCHANGED <<MAX_BAR_LENGTH, in_key, in_qualities, vocabVars, fileVars>>

TokensNext ==
  \/ Call_get_instrument_tokens
  \/ Call_get_chord_tokens
  \/ Call_get_time_signature_tokens
  \/ Call_get_midi_tokens

TokensSpec == TokensInit /\ [][TokensNext]_vars

-----------------------------------------------------------------------------
(* The token file and the constructors of RemiVocab and DescriptionVocab *)

\* '\n'.join(tokens), with a newline after the last token as well
join_trailing(ts) ==
  [j \in 1..(2 * Len(ts)) |-> IF j % 2 = 1 THEN ts[(j + 1) \div 2] ELSE "\n"]

\* '\n'.join(tokens): the tokens with a newline between each two
join(ts) ==
  IF ts = <<>> THEN <<>>
  ELSE [j \in 1..(2 * Len(ts) - 1) |-> IF j % 2 = 1 THEN ts[(j + 1) \div 2] ELSE "\n"]

\* one chunk read by split: a newline ends the piece being read
SplitStep(st, chunk) ==
  IF chunk = "\n" THEN [acc |-> Append(st.acc, st.cur), cur |-> ""]
  ELSE [acc |-> st.acc, cur |-> st.cur \o chunk]

\* the chunks content[lo..hi] read in order: the first half, then the second
RECURSIVE SplitFrom(_, _, _, _)
SplitFrom(st, content, lo, hi) ==
  IF lo > hi THEN st
  ELSE IF lo = hi THEN SplitStep(st, content[lo])
  ELSE LET mid == (lo + hi) \div 2
           first == SplitFrom(st, content, lo, mid)
       IN IF Len(first.acc) >= 0
          THEN SplitFrom(first, content, mid + 1, hi) ELSE first

\* content.split('\n'): the pieces between the newlines, the last one included
split(content) ==
  LET st == SplitFrom([acc |-> <<>>, cur |-> ""], content, 1, Len(content))
  IN Append(st.acc, st.cur)

\* RemiVocab.__init__: midi_tokens + chord_tokens
RemiTokens ==
  LET midi_tokens  == get_midi_tokens(INSTRUMENT_KEY, TIME_SIGNATURE_KEY, PITCH_KEY,
                                      VELOCITY_KEY, DURATION_KEY, TEMPO_KEY, BAR_KEY,
                                      POSITION_KEY)
      chord_tokens == get_chord_tokens(CHORD_KEY, DefaultQualities)
  IN midi_tokens \o chord_tokens

\* DescriptionVocab.__init__: the descriptor token list
DescriptionTokens ==
  LET time_sig_tokens   == get_time_signature_tokens(TIME_SIGNATURE_KEY)
      instrument_tokens == get_instrument_tokens(INSTRUMENT_KEY)
      chord_tokens      == get_chord_tokens(CHORD_KEY, DefaultQualities)
      bar_tokens        == Numbered(BAR_KEY, MAX_N_BARS)
      density_tokens    == Numbered(NOTE_DENSITY_KEY, len_DEFAULT_NOTE_DENSITY_BINS)
      velocity_tokens   == Numbered(MEAN_VELOCITY_KEY, len_DEFAULT_MEAN_VELOCITY_BINS)
      pitch_tokens      == Numbered(MEAN_PITCH_KEY, len_DEFAULT_MEAN_PITCH_BINS)
      duration_tokens   == Numbered(MEAN_DURATION_KEY, len_DEFAULT_MEAN_DURATION_BINS)
  IN time_sig_tokens \o instrument_tokens \o chord_tokens \o density_tokens
       \o velocity_tokens \o pitch_tokens \o duration_tokens \o bar_tokens

EnumeratedTokens == IF cls = "RemiVocab" THEN RemiTokens ELSE DescriptionTokens

\* if os.path.exists(token_file_path): ... else: ...
Exists(p) ==
  /\ fpc[p] = "start"
  /\ path' = [path EXCEPT ![p] = IF file.exists THEN "load" ELSE "build"]
  /\ fpc'  = [fpc EXCEPT ![p] = IF file.exists THEN "load" ELSE "build"]
  /\ UNCHANGED <<cls, file, self_tokens, vocab>>
  /\ UNCHANGED <<vocabVars, MAX_BAR_LENGTH, tokVars>>

\* with open(token_file_path, 'r') as f: self.tokens = f.read().split('\n')
Load(p) ==
  /\ fpc[p] = "load"
  /\ file.exists
  /\ self_tokens' = [self_tokens EXCEPT ![p] = split(file.content)]
  /\ fpc' = [fpc EXCEPT ![p] = "super"]
  /\ UNCHANGED <<cls, file, path, vocab>>
  /\ UNCHANGED <<vocabVars, MAX_BAR_LENGTH, tokVars>>

\* self.tokens = the enumerated token list
Build(p) ==
  /\ fpc[p] = "build"
  /\ self_tokens' = [self_tokens EXCEPT ![p] = EnumeratedTokens]
  /\ fpc' = [fpc EXCEPT ![p] = "open"]
  /\ UNCHANGED <<cls, file, path, vocab>>
  /\ UNCHANGED <<vocabVars, MAX_BAR_LENGTH, tokVars>>

\* open(token_file_path, 'w'): the file is created, or truncated to nothing
OpenForWrite(p) ==
  /\ fpc[p] = "open"
  /\ file' = [exists |-> TRUE, content |-> <<>>]
  /\ fpc' = [fpc EXCEPT ![p] = "write"]
  /\ UNCHANGED <<cls, path, self_tokens, vocab>>
  /\ UNCHANGED <<vocabVars, MAX_BAR_LENGTH, tokVars>>

\* f.write('\n'.join(self.tokens)) and the close that flushes it: the data
\* is written from offset 0 over what the file holds
Write(p) ==
  /\ fpc[p] = "write"
  /\ LET data == join(self_tokens[p])
     IN file' = [file EXCEPT !.content =
                   data \o SubSeq(file.content, Len(data) + 1, Len(file.content))]
  /\ fpc' = [fpc EXCEPT ![p] = "super"]
  /\ UNCHANGED <<cls, path, self_tokens, vocab>>
  /\ UNCHANGED <<vocabVars, MAX_BAR_LENGTH, tokVars>>

\* counter = Counter(self.tokens); super().__init__(counter)
SuperInit(p) ==
  /\ fpc[p] = "super"
  /\ vocab' = [vocab EXCEPT ![p] =
                 Vocab__init__(Counter(self_tokens[p]), DefaultSpecials, UNK_TOKEN)]
  /\ fpc' = [fpc EXCEPT ![p] = "done"]
  /\ UNCHANGED <<cls, file, path, self_tokens>>
  /\ UNCHANGED <<vocabVars, MAX_BAR_LENGTH, tokVars>>

\* token files found on disk: empty, one token, a repeated token, a trailing
\* newline, a line that is a special token, blank lines
FileContents ==
  { <<>>,
    <<"Pitch_60">>,
    <<"Pitch_60", "\n", "Pitch_62", "\n", "Pitch_60">>,
    <<"Pitch_60", "\n">>,
    <<UNK_TOKEN, "\n", "Pitch_60">>,
    <<"\n", "\n">> }

FileInit ==
  /\ cls \in {"RemiVocab", "DescriptionVocab"}
  /\ MAX_BAR_LENGTH \in 0..MaxBarLen
  /\ fpc = [p \in Procs |-> "start"]
  /\ path = [p \in Procs |-> "none"]
  /\ self_tokens = [p \in Procs |-> <<>>]
  /\ vocab = [p \in Procs |-> NoVocab]
  /\ in_key = "" /\ in_qualities = <<>> /\ call = "none" /\ ret = <<>>
  /\ IdleVocabVars

(* Specification SeqSpec: one process constructs the class, then constructs it
   again; the token file is absent at first, or holds any content *)

SeqInit ==
  /\ FileInit
  /\ \/ file = [exists |-> FALSE, content |-> <<>>]
     \/ \E c \in FileContents : file = [exists |-> TRUE, content |-> c]

Turn(p) == \A q \in Procs : q < p => fpc[q] = "done"

SeqNext ==
  \E p \in Procs :
    \/ Turn(p) /\ Exists(p)
    \/ Turn(p) /\ Load(p)
    \/ Turn(p) /\ Build(p)
    \/ Turn(p) /\ OpenForWrite(p)
    \/ Turn(p) /\ Write(p)
    \/ Turn(p) /\ SuperInit(p)

SeqSpec == SeqInit /\ [][SeqNext]_vars

(* Specification ConcSpec: two processes construct the class at the same time,
   with no token file present *)

ConcInit ==
  /\ FileInit
  /\ file = [exists |-> FALSE, content |-> <<>>]

ConcNext ==
  \E p \in Procs :
    \/ Exists(p)
    \/ Load(p)
    \/ Build(p)
    \/ OpenForWrite(p)
    \/ Write(p)
    \/ SuperInit(p)

ConcSpec == ConcInit /\ [][ConcNext]_vars

-----------------------------------------------------------------------------
(* Properties of Vocab, checked under Spec *)

\* C1: for a Vocab constructed with the default five specials and any counter,
\* every index i with 0 <= i < len(vocab) satisfies to_i(to_s(i)) = i.
C1_RoundTrip ==
  (pc = "ready" /\ in_specials = DefaultSpecials) =>
    \A i \in 0..(len(obj) - 1) :
      /\ to_s(obj, i).kind = "return"
      /\ to_i(obj, to_s(obj, i).value) = i

C1_Witness ==
  /\ pc = "ready" /\ in_specials = DefaultSpecials
  /\ UNK_TOKEN \in Range(occ)
  /\ len(obj) = 7
  /\ op = "to_s" /\ arg = 6 /\ result = Return("Pitch_62")
  /\ to_i(obj, "Pitch_62") = 6

\* C2 as stated: to_s(idx) never fails, returns UNK_TOKEN for every idx outside
\* 0..len-1 (negative ones included) and the mapped token for every idx inside;
\* decode applies it element-wise.  Stated for the default specials.
C2_ToSTotal ==
  in_specials = DefaultSpecials =>
  /\ (pc = "ready" /\ op = "to_s") =>
       /\ result.kind = "return"
       /\ result.value = IF 0 <= arg /\ arg < len(obj)
                         THEN obj.backward_map[arg + 1] ELSE UNK_TOKEN
  /\ (pc = "ready" /\ op = "decode") =>
       /\ result.kind = "return"
       /\ Len(result.value) = Len(arg)
       /\ \A j \in DOMAIN arg :
            result.value[j] = IF 0 <= arg[j] /\ arg[j] < len(obj)
                              THEN obj.backward_map[arg[j] + 1] ELSE UNK_TOKEN

\* C3: to_i(token) never fails; it returns the index of the token when the token
\* is in the vocabulary and the default index otherwise, the default index being
\* the position of unk_token in the specials, or 0 when it is not among them;
\* encode applies to_i element-wise, keeping length and order.
C3_ToITotal ==
  LET B == obj.backward_map
      expected_default ==
        IF \E i \in DOMAIN in_specials : in_specials[i] = in_unk_token
        THEN (CHOOSE i \in DOMAIN in_specials : in_specials[i] = in_unk_token) - 1
        ELSE 0
      expected(token) ==
        IF \E i \in DOMAIN B : B[i] = token
        THEN (CHOOSE i \in DOMAIN B : B[i] = token) - 1
        ELSE expected_default
  IN /\ (pc = "ready" /\ op = "to_i") =>
          /\ result.kind = "return"
          /\ result.value = expected(arg)
     /\ (pc = "ready" /\ op = "encode") =>
          /\ result.kind = "return"
          /\ Len(result.value) = Len(arg)
          /\ \A j \in DOMAIN arg : result.value[j] = expected(arg[j])

C3_Witness ==
  /\ pc = "ready"
  /\ in_specials = <<PAD_TOKEN, BOS_TOKEN, UNK_TOKEN>> /\ in_unk_token = UNK_TOKEN
  /\ op = "encode" /\ arg = <<"Pitch_61", "Pitch_60">>
  /\ result = Return(<<2, 3>>)

\* C4: after Vocab.__init__ the backward list is the specials in declared order
\* followed by the distinct non-special tokens of the occurrence sequence in
\* first-seen order; each token has one index, that of its first occurrence, and
\* the indices are exactly 0..len-1.
C4_BackwardLayout ==
  pc = "ready" =>
    LET B == obj.backward_map
        n == Len(in_specials)
        m == Len(B)
        first(t) == CHOOSE i \in DOMAIN occ :
                      occ[i] = t /\ \A j \in 1..(i - 1) : occ[j] # t
    IN /\ m >= n
       /\ SubSeq(B, 1, n) = in_specials
       /\ {B[i] : i \in (n + 1)..m} = Range(occ) \ Range(in_specials)
       /\ \A i, j \in (n + 1)..m : i < j => B[i] # B[j] /\ first(B[i]) < first(B[j])
       /\ DOMAIN obj.forward_map = Range(B)
       /\ \A i \in 1..m : obj.forward_map[B[i]] = i - 1
       /\ {obj.forward_map[t] : t \in DOMAIN obj.forward_map} = 0..(m - 1)

C4_Witness ==
  /\ pc = "ready"
  /\ in_specials = DefaultSpecials
  /\ occ = <<"Pitch_60", "Pitch_62", "Pitch_60">>
  /\ obj.backward_map = DefaultSpecials \o <<"Pitch_60", "Pitch_62">>
  /\ obj.forward_map["Pitch_60"] = 5 /\ obj.forward_map["Pitch_62"] = 6

\* C9: once Vocab.__init__ has returned, no call of to_i, to_s, encode, decode or
\* len changes forward_map, backward_map or default_token.
C9_Frame ==
  [][pc = "ready" =>
       /\ obj'.forward_map = obj.forward_map
       /\ obj'.backward_map = obj.backward_map
       /\ obj'.default_token = obj.default_token]_vars

C9_Witness ==
  /\ pc = "ready"
  /\ op = "to_i" /\ arg = "NotARealToken_999"
  /\ result = Return(obj.default_token)
  /\ "NotARealToken_999" \notin DOMAIN obj.forward_map
  /\ obj = Vocab__init__(in_counter, in_specials, in_unk_token)

-----------------------------------------------------------------------------
(* Properties of Tokens.get_time_signature_tokens, checked under TokensSpec *)

\* C7 as stated: with MAX_BAR_LENGTH = 1 the call returns exactly the 4 tokens
\* TimeSig_1/2, TimeSig_1/4, TimeSig_1/8, TimeSig_1/16.
C7_FourTokens ==
  (call = "get_time_signature_tokens" /\ MAX_BAR_LENGTH = 1 /\ in_key = "TimeSig") =>
    ret = <<"TimeSig_1/2", "TimeSig_1/4", "TimeSig_1/8", "TimeSig_1/16">>

\* C7 amended: with MAX_BAR_LENGTH = 1 the call returns exactly 2+4+8+16 = 30
\* tokens: for each denominator q in 2, 4, 8, 16 the numerators 1..q.
C7_ThirtyTokens ==
  (call = "get_time_signature_tokens" /\ MAX_BAR_LENGTH = 1 /\ in_key = "TimeSig") =>
    ret = << "TimeSig_1/2", "TimeSig_2/2",
             "TimeSig_1/4", "TimeSig_2/4", "TimeSig_3/4", "TimeSig_4/4",
             "TimeSig_1/8", "TimeSig_2/8", "TimeSig_3/8", "TimeSig_4/8",
             "TimeSig_5/8", "TimeSig_6/8", "TimeSig_7/8", "TimeSig_8/8",
             "TimeSig_1/16", "TimeSig_2/16", "TimeSig_3/16", "TimeSig_4/16",
             "TimeSig_5/16", "TimeSig_6/16", "TimeSig_7/16", "TimeSig_8/16",
             "TimeSig_9/16", "TimeSig_10/16", "TimeSig_11/16", "TimeSig_12/16",
             "TimeSig_13/16", "TimeSig_14/16", "TimeSig_15/16", "TimeSig_16/16" >>

C7_Witness ==
  /\ call = "get_time_signature_tokens" /\ MAX_BAR_LENGTH = 1 /\ in_key = "TimeSig"
  /\ Len(ret) = 30
  /\ ret[1] = "TimeSig_1/2" /\ ret[2] = "TimeSig_2/2" /\ ret[30] = "TimeSig_16/16"

\* C10: for any MAX_BAR_LENGTH >= 0 the call returns, for each denominator q in
\* the order 2, 4, 8, 16 and each numerator p = 1..MAX_BAR_LENGTH*q ascending,
\* the token "<key>_<p>/<q>", nothing else and nothing twice; its length is
\* MAX_BAR_LENGTH*(2+4+8+16).
C10_TimeSignatures ==
  call = "get_time_signature_tokens" =>
    LET qs  == <<2, 4, 8, 16>>
        before == <<0, 2, 6, 14>>
    IN /\ Len(ret) = MAX_BAR_LENGTH * (2 + 4 + 8 + 16)
       /\ \A d \in 1..4 : \A p \in 1..(MAX_BAR_LENGTH * qs[d]) :
            ret[MAX_BAR_LENGTH * before[d] + p]
              = in_key \o "_" \o ToString(p) \o "/" \o ToString(qs[d])
       /\ \A i, j \in DOMAIN ret : i # j => ret[i] # ret[j]

C10_Witness ==
  /\ call = "get_time_signature_tokens" /\ MAX_BAR_LENGTH = 2 /\ in_key = "K"
  /\ Len(ret) = 60
  /\ ret[4] = "K_4/2" /\ ret[5] = "K_1/4" /\ ret[60] = "K_32/16"

-----------------------------------------------------------------------------
(* Properties of RemiVocab / DescriptionVocab construction *)

EnumeratedVocab == Vocab__init__(Counter(EnumeratedTokens), DefaultSpecials, UNK_TOKEN)

\* C5 (SeqSpec): on the build path and on the load path, whatever the token file
\* holds, len(vocab) = len(specials) + the number of distinct tokens of the token
\* list that are category tokens, i.e. not specials.
C5_Size ==
  \A p \in Procs :
    fpc[p] = "done" =>
      len(vocab[p]) = Len(DefaultSpecials)
                        + Cardinality(Range(self_tokens[p]) \ Range(DefaultSpecials))

C5_Witness ==
  /\ fpc[1] = "done" /\ path[1] = "load"
  /\ self_tokens[1] = <<UNK_TOKEN, "Pitch_60">>
  /\ len(vocab[1]) = 6

\* C6 (SeqSpec): a construction with no token file present (build path) followed
\* by a construction from the file it wrote (load path) gives two vocabularies
\* of the same length with the same to_i for every enumerated token.
C6_PersistRoundTrip ==
  (fpc[1] = "done" /\ fpc[2] = "done" /\ path[1] = "build" /\ path[2] = "load") =>
    /\ len(vocab[1]) = len(vocab[2])
    /\ \A t \in Range(EnumeratedTokens) \cup Range(DefaultSpecials) \cup {"NotARealToken_999"} :
         to_i(vocab[1], t) = to_i(vocab[2], t)

C6_Witness ==
  /\ fpc[1] = "done" /\ fpc[2] = "done" /\ path[1] = "build" /\ path[2] = "load"
  /\ MAX_BAR_LENGTH = 1
  /\ file.content = join(EnumeratedTokens)
  /\ self_tokens[2] = EnumeratedTokens
  /\ len(vocab[2]) = Len(DefaultSpecials) + Len(EnumeratedTokens)

\* C8 (ConcSpec): with two processes and no token file at the start, a process
\* that finds the file after the other opened it for writing and reads it
\* before the write is complete ends with a vocabulary whose length or
\* token-to-index mapping differs from the enumerated one.
C8_RacyLoadDiffers ==
  \A p \in Procs :
    (fpc[p] = "done" /\ path[p] = "load" /\ self_tokens[p] # EnumeratedTokens) =>
      \/ len(vocab[p]) # len(EnumeratedVocab)
      \/ \E t \in Range(EnumeratedTokens) : to_i(vocab[p], t) # to_i(EnumeratedVocab, t)

C8_Witness ==
  /\ fpc[1] = "done" /\ path[1] = "build" /\ vocab[1] = EnumeratedVocab
  /\ fpc[2] = "done" /\ path[2] = "load"
  /\ self_tokens[2] = <<"">>
  /\ len(vocab[2]) = 6
  /\ len(vocab[1]) = Len(DefaultSpecials) + Len(EnumeratedTokens)
  /\ to_i(vocab[2], EnumeratedTokens[1]) = 1
  /\ to_i(vocab[1], EnumeratedTokens[1]) = 5

====
